---- MODULE Spec2Model ----
(***************************************************************************)
(* Credential and token subsystem of the mediaapi backend                  *)
(* (src/mediaapi/security.py, src/mediaapi/routers/user.py,                *)
(* src/mediaapi/routers/post.py).                                          *)
(*                                                                         *)
(* Time is counted in minutes.  A signed token is the record               *)
(* [wellformed, payload, sig]; the signature is an ideal keyed MAC, the    *)
(* pair of the key and the signed payload, so that it matches exactly when *)
(* neither the key nor any claim differs.  A payload is a record whose     *)
(* domain is the set of claims present, as the Python dict is.             *)
(***************************************************************************)
EXTENDS Integers, Sequences, FiniteSets, TLC

VARIABLES
    users,      \* users_table: sequence of rows, the id is the position
    posts,      \* post_table
    comments,   \* comments_table
    likes,      \* like_table
    now,        \* datetime.now(timezone.utc), in minutes
    ticks,      \* number of clock advances so far
    salts,      \* number of salts bcrypt.gensalt() has drawn
    issued,     \* tokens returned by the issuers and still held by a client
    inflight,   \* handlers suspended at an await, with the query they sent
    hashes,     \* hashes get_password has returned to a direct caller
    response    \* outcome of the last call

vars == <<users, posts, comments, likes, now, ticks, salts, issued, inflight,
          hashes, response>>

(* ---------------------------- bounds ----------------------------------- *)
MaxTokens == 1
MaxTicks == 1
MaxRows == 1
MaxInflight == 2
MaxHashes == 2

Emails == {"a@x.com", "b@x.com"}
Passwords == {"pw1", "pw2"}
EmailInputs == Emails \cup {""}
PasswordInputs == Passwords \cup {""}
Bodies == {"hello"}

(* --------------------------- configuration ----------------------------- *)
SECRET_KEY == "SECRET_KEY"
ForeignKey == "not the SECRET_KEY"

access_token_expire_minutes == 30

confirm_token_expire_minutes == 1440

\* the value the tests patch the two functions above to return
MockedExpireMinutes == -1

JwtTypes == {"access", "confirmation"}

ExpectedTypes == JwtTypes \cup {"WRONG TYPE"}

AccessExpire == {access_token_expire_minutes, MockedExpireMinutes}
ConfirmExpire == {confirm_token_expire_minutes, MockedExpireMinutes}

(* ----------------------------- token codec ----------------------------- *)
Sign(key, payload) == [key |-> key, payload |-> payload]

jwt_encode(claims, key) ==
    [wellformed |-> TRUE, payload |-> claims, sig |-> Sign(key, claims)]

NoPayload == [none |-> TRUE]
\* a string that is not three base64url segments, such as "WRONG TOKEN"
Malformed == [wellformed |-> FALSE, payload |-> NoPayload,
              sig |-> Sign("", NoPayload)]
NoToken == [wellformed |-> FALSE, payload |-> NoPayload,
            sig |-> Sign("none", NoPayload)]

\* jwt.decode: the signature is verified first, the exp claim second
jwt_decode_NoSignatureCheck(token, key, t) ==
    IF ~token.wellformed
    THEN "JWTError"
    ELSE IF "exp" \in DOMAIN token.payload /\ token.payload.exp < t
    THEN "ExpiredSignatureError"
    ELSE "payload"

jwt_decode_NoExpiryCheck(token, key, t) ==
    IF ~token.wellformed \/ token.sig # Sign(key, token.payload)
    THEN "JWTError"
    ELSE "payload"

jwt_decode_Leeway(token, key, t) ==
    IF ~token.wellformed \/ token.sig # Sign(key, token.payload)
    THEN "JWTError"
    ELSE IF "exp" \in DOMAIN token.payload /\ token.payload.exp + 1 < t
    THEN "ExpiredSignatureError"
    ELSE "payload"

jwt_decode(token, key, t) ==
    IF ~token.wellformed \/ token.sig # Sign(key, token.payload)
    THEN "JWTError"
    ELSE IF "exp" \in DOMAIN token.payload /\ token.payload.exp < t
    THEN "ExpiredSignatureError"
    ELSE "payload"

HTTPException(status_code, detail) ==
    [status |-> status_code, detail |-> detail, email |-> ""]

Subject(email) == [status |-> 200, detail |-> "", email |-> email]

create_access_token_NoEmptyCheck(email, t, minutes) ==
    [status |-> 200, detail |-> "",
     token |-> jwt_encode([sub |-> email, exp |-> t + minutes,
                           type |-> "access"], SECRET_KEY)]

create_access_token_ConfirmationType(email, t, minutes) ==
    IF email = ""
    THEN [status |-> 400, detail |-> "empty email", token |-> NoToken]
    ELSE [status |-> 200, detail |-> "",
          token |-> jwt_encode([sub |-> email, exp |-> t + minutes,
                                type |-> "confirmation"], SECRET_KEY)]

create_access_token(email, t, minutes) ==
    IF email = ""
    THEN [status |-> 400, detail |-> "empty email", token |-> NoToken]
    ELSE [status |-> 200, detail |-> "",
          token |-> jwt_encode([sub |-> email, exp |-> t + minutes,
                                type |-> "access"], SECRET_KEY)]

create_confirmation_token_AccessType(email, t, minutes) ==
    create_access_token(email, t, minutes)

create_confirmation_token_ExpNow(email, t, minutes) ==
    IF email = ""
    THEN [status |-> 400, detail |-> "empty email", token |-> NoToken]
    ELSE [status |-> 200, detail |-> "",
          token |-> jwt_encode([sub |-> email, exp |-> t,
                                type |-> "confirmation"], SECRET_KEY)]

create_confirmation_token(email, t, minutes) ==
    IF email = ""
    THEN [status |-> 400, detail |-> "empty email", token |-> NoToken]
    ELSE [status |-> 200, detail |-> "",
          token |-> jwt_encode([sub |-> email, exp |-> t + minutes,
                                type |-> "confirmation"], SECRET_KEY)]

sub_is_None(payload) == "sub" \notin DOMAIN payload

type_is_wrong_AnyType(payload, token_type) == "type" \notin DOMAIN payload

type_is_wrong(payload, token_type) ==
    "type" \notin DOMAIN payload \/ payload.type # token_type

get_subject_for_token_type_TypeFirst(token, token_type, t) ==
    LET decoded == jwt_decode(token, SECRET_KEY, t)
        payload == token.payload
    IN  IF decoded = "ExpiredSignatureError"
        THEN HTTPException(401, "Expired JWT token")
        ELSE IF decoded = "JWTError"
        THEN HTTPException(401, "Could not validate credentials (JWT error)")
        ELSE IF type_is_wrong(payload, token_type)
        THEN HTTPException(401, "Invalid JWT type, expected: " \o token_type)
        ELSE IF sub_is_None(payload)
        THEN HTTPException(401, "Token is missing 'sub' field")
        ELSE Subject(payload.sub)

get_subject_for_token_type_CarriesActual(token, token_type, t) ==
    LET decoded == jwt_decode(token, SECRET_KEY, t)
        payload == token.payload
    IN  IF decoded = "ExpiredSignatureError"
        THEN HTTPException(401, "Expired JWT token")
        ELSE IF decoded = "JWTError"
        THEN HTTPException(401, "Could not validate credentials (JWT error)")
        ELSE IF sub_is_None(payload)
        THEN HTTPException(401, "Token is missing 'sub' field")
        ELSE IF type_is_wrong(payload, token_type)
        THEN HTTPException(401, "Invalid JWT type, expected: " \o token_type
                 \o ", actual: "
                 \o (IF "type" \in DOMAIN payload THEN payload.type
                     ELSE "None"))
        ELSE Subject(payload.sub)

get_subject_for_token_type(token, token_type, t) ==
    LET decoded == jwt_decode(token, SECRET_KEY, t)
        payload == token.payload
    IN  IF decoded = "ExpiredSignatureError"
        THEN HTTPException(401, "Expired JWT token")
        ELSE IF decoded = "JWTError"
        THEN HTTPException(401, "Could not validate credentials (JWT error)")
        ELSE IF sub_is_None(payload)
        THEN HTTPException(401, "Token is missing 'sub' field")
        ELSE IF type_is_wrong(payload, token_type)
        THEN HTTPException(401, "Invalid JWT type, expected: " \o token_type)
        ELSE Subject(payload.sub)

(* ------------------- token strings a caller can present ---------------- *)
OtherType(type) == IF type = "access" THEN "confirmation" ELSE "access"

\* an issued token with one claim rewritten and the signature kept, or with
\* the signature replaced by one made with another key
Tampered(tok, t) ==
    {[tok EXCEPT !.payload.sub = s] : s \in EmailInputs \ {tok.payload.sub}}
    \cup {[tok EXCEPT !.payload.type = OtherType(tok.payload.type)]}
    \cup ({[tok EXCEPT !.payload.exp = t + 1]} \ {tok})
    \cup {[tok EXCEPT !.sig = Sign(ForeignKey, tok.payload)]}

ExpChoices(t) == {t - 1, t + 1}

\* claim sets no issuer writes: an empty subject, or a claim absent
OddClaims(t) ==
    {[sub |-> "", exp |-> e, type |-> ty] :
        e \in ExpChoices(t), ty \in JwtTypes}
    \cup {[exp |-> e, type |-> ty] : e \in ExpChoices(t), ty \in JwtTypes}
    \cup {[sub |-> s, exp |-> e] : s \in Emails, e \in ExpChoices(t)}
    \cup {[sub |-> s, type |-> ty] : s \in Emails, ty \in JwtTypes}

\* tokens encoded with the configured key by a holder of it (the tests do)
Crafted(t) == {jwt_encode(c, SECRET_KEY) : c \in OddClaims(t)}

\* tokens encoded by somebody who does not hold the configured key
Foreign(t) ==
    {jwt_encode([sub |-> s, exp |-> t + 1, type |-> ty], ForeignKey) :
        s \in Emails, ty \in JwtTypes}

Forged(t) == UNION {Tampered(tok, t) : tok \in issued} \cup Foreign(t)
             \cup {Malformed}

\* what a caller of the token functions can pass them
Presentable(t) == issued \cup Crafted(t) \cup Forged(t)

\* what a client of the HTTP interface can send: only the issuers hold the key
Offered(t) == issued \cup Forged(t)

(* ---------------------------- password hasher -------------------------- *)
\* bcrypt.hashpw: the digest is determined by the password and the salt, and
\* the salt is kept in the hash
hashpw(password, salt) == [salt |-> salt, digest |-> <<salt, password>>]

\* bcrypt.gensalt() draws a salt never drawn before
gensalt == salts + 1

\* the salt drawn once, when the module is loaded
get_password_FixedSalt(password) == hashpw(password, 1)

get_password(password) == hashpw(password, gensalt)

\* a string that does not begin with a bcrypt salt, such as "not a hash"
MalformedHash == [salt |-> 0, digest |-> <<0, "not a hash">>]

\* bcrypt.checkpw raises ValueError("Invalid salt") on such a string
checkpw_raises(password, hashed) == hashed.salt < 1

checkpw(password, hashed) == hashpw(password, hashed.salt) = hashed

verify_password_raises(plain_password, hashed_password) ==
    checkpw_raises(plain_password, hashed_password)

verify_password(plain_password, hashed_password) ==
    checkpw(plain_password, hashed_password)

(* ----------------------------- user repository ------------------------- *)
NoHash == [salt |-> 0, digest |-> <<0, "">>]
\* the None of Optional[UserIn]
NoUser == [id |-> 0, email |-> "", password |-> NoHash, confirmed |-> FALSE]

\* column default of users.confirmed, which register's insert leaves unset
ConfirmedDefault == FALSE

Rows(table) == {table[i] : i \in 1..Len(table)}

\* database.fetch_one: the first row that matches
fetch_one(email) ==
    IF \E i \in 1..Len(users) : users[i].email = email
    THEN users[CHOOSE i \in 1..Len(users) :
                 /\ users[i].email = email
                 /\ \A j \in 1..(i - 1) : users[j].email # email]
    ELSE NoUser

UserResult(status_code, detail, user) ==
    [status |-> status_code, detail |-> detail, user |-> user]

get_user_NoEmptyCheck(email) == UserResult(200, "", fetch_one(email))

get_user(email) ==
    IF email # ""
    THEN UserResult(200, "", fetch_one(email))
    ELSE UserResult(401, "The email value can not be empty", NoUser)

\* the keys get_user passes to database.fetch_one
get_user_queries(email) == IF email # "" THEN {email} ELSE {}

(* ------------------------------ authenticator -------------------------- *)
authenticate_user_NoConfirmedCheck(email, password) ==
    LET found == get_user(email)
        user == found.user
    IN  IF found.status # 200
        THEN found
        ELSE IF user = NoUser
        THEN UserResult(401, "Invalid user or password", NoUser)
        ELSE IF verify_password_raises(password, user.password)
        THEN UserResult(500, "Internal Server Error", NoUser)
        ELSE IF ~verify_password(password, user.password)
        THEN UserResult(401, "Invalid user or password", NoUser)
        ELSE UserResult(200, "", user)

authenticate_user_IncorrectPassword(email, password) ==
    LET found == get_user(email)
        user == found.user
    IN  IF found.status # 200
        THEN found
        ELSE IF user = NoUser
        THEN UserResult(401, "Invalid user or password", NoUser)
        ELSE IF verify_password_raises(password, user.password)
        THEN UserResult(500, "Internal Server Error", NoUser)
        ELSE IF ~verify_password(password, user.password)
        THEN UserResult(401, "Incorrect password", NoUser)
        ELSE IF ~user.confirmed
        THEN UserResult(401, "The user has not confirmed the email", NoUser)
        ELSE UserResult(200, "", user)

authenticate_user_ConfirmedFirst(email, password) ==
    LET found == get_user(email)
        user == found.user
    IN  IF found.status # 200
        THEN found
        ELSE IF user = NoUser
        THEN UserResult(401, "Invalid user or password", NoUser)
        ELSE IF ~user.confirmed
        THEN UserResult(401, "The user has not confirmed the email", NoUser)
        ELSE IF verify_password_raises(password, user.password)
        THEN UserResult(500, "Internal Server Error", NoUser)
        ELSE IF ~verify_password(password, user.password)
        THEN UserResult(401, "Invalid user or password", NoUser)
        ELSE UserResult(200, "", user)

authenticate_user(email, password) ==
    LET found == get_user(email)
        user == found.user
    IN  IF found.status # 200
        THEN found
        ELSE IF user = NoUser
        THEN UserResult(401, "Invalid user or password", NoUser)
        ELSE IF verify_password_raises(password, user.password)
        THEN UserResult(500, "Internal Server Error", NoUser)
        ELSE IF ~verify_password(password, user.password)
        THEN UserResult(401, "Invalid user or password", NoUser)
        ELSE IF ~user.confirmed
        THEN UserResult(401, "The user has not confirmed the email", NoUser)
        ELSE UserResult(200, "", user)

authenticate_user_queries(email, password) == get_user_queries(email)

get_user_from_a_jwt_queries(token) ==
    LET subject == get_subject_for_token_type(token, "access", now)
    IN  IF subject.status # 200 THEN {} ELSE get_user_queries(subject.email)

get_user_from_a_jwt_InvalidCredentials(token) ==
    LET subject == get_subject_for_token_type(token, "access", now)
        found == get_user(subject.email)
    IN  IF subject.status # 200
        THEN UserResult(subject.status, subject.detail, NoUser)
        ELSE IF found.status # 200
        THEN found
        ELSE IF found.user = NoUser
        THEN UserResult(401, "Invalid user or password", NoUser)
        ELSE found

get_user_from_a_jwt_NoUserCheck(token) ==
    LET subject == get_subject_for_token_type(token, "access", now)
        found == get_user(subject.email)
    IN  IF subject.status # 200
        THEN UserResult(subject.status, subject.detail, NoUser)
        ELSE found

get_user_from_a_jwt(token) ==
    LET subject == get_subject_for_token_type(token, "access", now)
        found == get_user(subject.email)
    IN  IF subject.status # 200
        THEN UserResult(subject.status, subject.detail, NoUser)
        ELSE IF found.status # 200
        THEN found
        ELSE IF found.user = NoUser
        THEN UserResult(401, "Could not find user for this user", NoUser)
        ELSE found

(* ------------------------------- responses ----------------------------- *)
\* op: the call; status, detail: its outcome; email: the email it was given
\* or the subject it validated; token: the token it returned, or the token it
\* accepted; expected: the purpose it was asked to check; user_id: the user
\* it identified; queried: the keys it looked up in the users table
Response(op, status_code, detail, email, token, expected, user_id) ==
    [op |-> op, status |-> status_code, detail |-> detail, email |-> email,
     token |-> token, expected |-> expected, user_id |-> user_id,
     queried |-> {}, password |-> "", hashed |-> NoHash]

Queried(resp, keys) == [resp EXCEPT !.queried = keys]

\* of a call of the hasher: the password and the hash it was given or returned
Hashing(resp, password, hashed) ==
    [resp EXCEPT !.password = password, !.hashed = hashed]

Idle == Response("", 0, "", "", NoToken, "", 0)

HasRoom(token) == token \in issued \/ Cardinality(issued) < MaxTokens

(* ------------------------- routers/user.py ----------------------------- *)
TypeOK ==
    /\ Len(users) <= Cardinality(Emails) + 1
    /\ Len(posts) + Len(comments) + Len(likes) <= MaxRows
    /\ Cardinality(issued) <= MaxTokens
    /\ ticks <= MaxTicks
    /\ Len(inflight) <= MaxInflight
    /\ Cardinality(hashes) <= MaxHashes
    /\ salts >= Len(users)

register(email, password, minutes) ==
    LET hash_password == get_password(password)
        created == create_confirmation_token(email, now, minutes)
    IN  IF email = ""
        THEN /\ response' = Response("register", 400, "Missing email value",
                                     email, NoToken, "", 0)
             /\ UNCHANGED <<users, salts, issued>>
        ELSE IF password = ""
        THEN /\ response' = Response("register", 400,
                                     "Missing password value",
                                     email, NoToken, "", 0)
             /\ UNCHANGED <<users, salts, issued>>
        ELSE IF get_user(email).user # NoUser
        THEN /\ response' = Queried(Response("register", 400,
                   "The user with email " \o email \o " already exists",
                   email, NoToken, "", 0), get_user_queries(email))
             /\ UNCHANGED <<users, salts, issued>>
        ELSE /\ HasRoom(created.token)
             /\ salts' = salts + 1
             /\ users' = Append(users,
                    [id |-> Len(users) + 1, email |-> email,
                     password |-> hash_password,
                     confirmed |-> ConfirmedDefault])
             /\ issued' = issued \cup {created.token}
             /\ response' = Queried(Response("register", 201,
                   "User created. Pleae confirm your email",
                   email, created.token, "", 0), get_user_queries(email))

login(email, password, minutes) ==
    LET auth == authenticate_user(email, password)
        keys == authenticate_user_queries(email, password)
        created == create_access_token(auth.user.email, now, minutes)
    IN  IF auth.status # 200
        THEN /\ response' = Queried(Response("login", auth.status,
                                 auth.detail, email, NoToken, "", 0), keys)
             /\ UNCHANGED issued
        ELSE IF created.status # 200
        THEN /\ response' = Queried(Response("login", created.status,
                                 created.detail, email, NoToken, "", 0), keys)
             /\ UNCHANGED issued
        ELSE /\ HasRoom(created.token)
             /\ issued' = issued \cup {created.token}
             /\ response' = Queried(Response("login", 200, "", email,
                                 created.token, "", auth.user.id), keys)

\* users_table.update().where(email == email).values(confirmed=True)
mark_confirmed_Everyone(email) ==
    [i \in 1..Len(users) |-> [users[i] EXCEPT !.confirmed = TRUE]]

mark_confirmed_Toggle(email) ==
    [i \in 1..Len(users) |->
        IF users[i].email = email
        THEN [users[i] EXCEPT !.confirmed = ~users[i].confirmed]
        ELSE users[i]]

mark_confirmed_Nobody(email) == users

mark_confirmed_OnlyRow(email) ==
    SelectSeq(mark_confirmed_Everyone(email), LAMBDA u : u.email = email)

\* an update that inserts the row it does not find
mark_confirmed_Upsert(email) ==
    IF email = "" \/ \E i \in 1..Len(users) : users[i].email = email
    THEN mark_confirmed_Everyone(email)
    ELSE Append(users, [id |-> Len(users) + 1, email |-> email,
                        password |-> NoHash, confirmed |-> TRUE])

mark_confirmed(email) ==
    [i \in 1..Len(users) |->
        IF users[i].email = email
        THEN [users[i] EXCEPT !.confirmed = TRUE]
        ELSE users[i]]

\* the update made for the subject the token names, validated or not
confirm_email_UpdateFirst(token) ==
    LET subject == get_subject_for_token_type(token, "confirmation", now)
        named == IF token.wellformed /\ "sub" \in DOMAIN token.payload
                 THEN token.payload.sub ELSE ""
    IN  /\ users' = mark_confirmed(named)
        /\ response' = IF subject.status # 200
                       THEN Response("confirm_email", subject.status,
                                     subject.detail, "", NoToken, "", 0)
                       ELSE Response("confirm_email", 200, "User confirmed.",
                                     subject.email, token, "", 0)

confirm_email(token) ==
    LET subject == get_subject_for_token_type(token, "confirmation", now)
    IN  IF subject.status # 200
        THEN /\ response' = Response("confirm_email", subject.status,
                                     subject.detail, "", NoToken, "", 0)
             /\ UNCHANGED users
        ELSE /\ users' = mark_confirmed(subject.email)
             /\ response' = Response("confirm_email", 200, "User confirmed.",
                                     subject.email, token, "", 0)

Register ==
    /\ \E email \in EmailInputs, password \in PasswordInputs,
          minutes \in ConfirmExpire : register(email, password, minutes)
    /\ UNCHANGED <<inflight, hashes, posts, comments, likes, now, ticks>>

Login ==
    /\ \E email \in EmailInputs, password \in PasswordInputs,
          minutes \in AccessExpire : login(email, password, minutes)
    /\ UNCHANGED <<inflight, hashes, users, posts, comments, likes,
                   now, ticks, salts>>

ConfirmEmail ==
    /\ \E token \in Offered(now) : confirm_email(token)
    /\ UNCHANGED <<inflight, hashes, posts, comments, likes, now,
                   ticks, salts, issued>>

\* confirm_email called with a token made by a holder of the key, as the
\* tests make them
ConfirmEmailPresented ==
    /\ \E token \in Presentable(now) : confirm_email(token)
    /\ UNCHANGED <<inflight, hashes, posts, comments, likes, now,
                   ticks, salts, issued>>

\* security.authenticate_user called on its own
AuthenticateUser ==
    /\ \E email \in EmailInputs, password \in PasswordInputs :
          LET auth == authenticate_user(email, password)
          IN  response' = Queried(
                  Response("authenticate_user", auth.status, auth.detail,
                           email, NoToken, "", auth.user.id),
                  authenticate_user_queries(email, password))
    /\ UNCHANGED <<inflight, hashes, users, posts, comments, likes,
                   now, ticks, salts, issued>>

(* ------------------------- routers/post.py ----------------------------- *)
\* the ids of the posts there are, and one of no post
PostIds == 1..(Len(posts) + 1)

RowsUsed == Len(posts) + Len(comments) + Len(likes)

find_post(post_id) == \E i \in 1..Len(posts) : posts[i].id = post_id

Refused(op, token, status_code, detail) ==
    /\ response' = Queried(
           Response(op, status_code, detail, "", NoToken, "", 0),
           get_user_from_a_jwt_queries(token))
    /\ UNCHANGED <<posts, comments, likes>>

Created(op, user, token) ==
    response' = Queried(
        Response(op, 201, "", user.email, token, "", user.id),
        get_user_from_a_jwt_queries(token))

create_post(token, body) ==
    LET current == get_user_from_a_jwt(token)
    IN  IF current.status # 200
        THEN Refused("create_post", token, current.status, current.detail)
        ELSE /\ RowsUsed < MaxRows
             /\ posts' = Append(posts, [id |-> Len(posts) + 1, body |-> body,
                                        user_id |-> current.user.id])
             /\ Created("create_post", current.user, token)
             /\ UNCHANGED <<comments, likes>>

create_comment(token, post_id, body) ==
    LET current == get_user_from_a_jwt(token)
    IN  IF current.status # 200
        THEN Refused("create_comment", token, current.status, current.detail)
        ELSE IF ~find_post(post_id)
        THEN Refused("create_comment", token, 404,
                     "Post with Id " \o ToString(post_id) \o " not found")
        ELSE /\ RowsUsed < MaxRows
             /\ comments' = Append(comments,
                    [id |-> Len(comments) + 1, body |-> body,
                     post_id |-> post_id, user_id |-> current.user.id])
             /\ Created("create_comment", current.user, token)
             /\ UNCHANGED <<posts, likes>>

like_post(token, post_id) ==
    LET current == get_user_from_a_jwt(token)
    IN  IF current.status # 200
        THEN Refused("like_post", token, current.status, current.detail)
        ELSE IF ~find_post(post_id)
        THEN Refused("like_post", token, 404,
                     "Post with Id " \o ToString(post_id) \o " not found")
        ELSE /\ RowsUsed < MaxRows
             /\ likes' = Append(likes,
                    [id |-> Len(likes) + 1, post_id |-> post_id,
                     user_id |-> current.user.id])
             /\ Created("like_post", current.user, token)
             /\ UNCHANGED <<posts, comments>>

CreatePost ==
    /\ \E token \in Offered(now), body \in Bodies :
          create_post(token, body)
    /\ UNCHANGED <<inflight, hashes, users, now, ticks, salts, issued>>

CreateComment ==
    /\ \E token \in Offered(now), post_id \in PostIds, body \in Bodies :
          create_comment(token, post_id, body)
    /\ UNCHANGED <<inflight, hashes, users, now, ticks, salts, issued>>

LikePost ==
    /\ \E token \in Offered(now), post_id \in PostIds :
          like_post(token, post_id)
    /\ UNCHANGED <<inflight, hashes, users, now, ticks, salts, issued>>

(* ------------------- security.py called on its own --------------------- *)
CreateAccessToken ==
    /\ \E email \in EmailInputs, minutes \in AccessExpire :
          LET created == create_access_token(email, now, minutes)
          IN  /\ created.status = 200 => HasRoom(created.token)
              /\ issued' = IF created.status = 200
                           THEN issued \cup {created.token} ELSE issued
              /\ response' = Response("create_access_token", created.status,
                                      created.detail, email, created.token,
                                      "", 0)
    /\ UNCHANGED <<inflight, hashes, users, posts, comments, likes,
                   now, ticks, salts>>

CreateConfirmationToken ==
    /\ \E email \in EmailInputs, minutes \in ConfirmExpire :
          LET created == create_confirmation_token(email, now, minutes)
          IN  /\ created.status = 200 => HasRoom(created.token)
              /\ issued' = IF created.status = 200
                           THEN issued \cup {created.token} ELSE issued
              /\ response' = Response("create_confirmation_token",
                                      created.status, created.detail, email,
                                      created.token, "", 0)
    /\ UNCHANGED <<inflight, hashes, users, posts, comments, likes,
                   now, ticks, salts>>

GetSubjectForTokenType ==
    /\ \E token \in Presentable(now), token_type \in ExpectedTypes :
          LET subject == get_subject_for_token_type(token, token_type, now)
          IN  response' = Response("get_subject_for_token_type",
                                   subject.status, subject.detail,
                                   subject.email, token, token_type, 0)
    /\ UNCHANGED <<inflight, hashes, users, posts, comments, likes,
                   now, ticks, salts, issued>>

\* security.get_password called on its own
GetPassword ==
    /\ Cardinality(hashes) < MaxHashes
    /\ \E password \in PasswordInputs :
          LET hashed == get_password(password)
          IN  /\ hashes' = hashes \cup {hashed}
              /\ response' = Hashing(
                     Response("get_password", 200, "", "", NoToken, "", 0),
                     password, hashed)
    /\ salts' = salts + 1
    /\ UNCHANGED <<inflight, users, posts, comments, likes, now, ticks,
                   issued>>

\* security.verify_password called on its own, with a hash that
\* get_password returned or that is stored in the users table, or with a
\* string that is no hash
VerifyPassword ==
    /\ \E password \in PasswordInputs,
          hashed \in hashes \cup {users[i].password : i \in 1..Len(users)}
                        \cup {MalformedHash} :
          response' = Hashing(
              IF verify_password_raises(password, hashed)
              THEN Response("verify_password", 500, "ValueError: Invalid salt",
                            "", NoToken, "", 0)
              ELSE Response("verify_password", 200,
                            IF verify_password(password, hashed)
                            THEN "True" ELSE "False", "", NoToken, "", 0),
              password, hashed)
    /\ UNCHANGED <<inflight, hashes, users, posts, comments, likes, now,
                   ticks, salts, issued>>

\* security.get_user_from_a_jwt called on its own, with a token a client
\* can hold
GetUserFromAJwt ==
    /\ \E token \in Offered(now) :
          LET current == get_user_from_a_jwt(token)
          IN  response' = Queried(
                  Response("get_user_from_a_jwt", current.status,
                           current.detail, current.user.email, token,
                           "access", current.user.id),
                  get_user_from_a_jwt_queries(token))
    /\ UNCHANGED <<inflight, hashes, users, posts, comments, likes, now,
                   ticks, salts, issued>>

(* ------------- handlers interleaved at their awaits -------------------- *)
\* a handler suspended at `await database.execute(query)`
Pending(op, email, token) == [op |-> op, email |-> email, token |-> token]

Without(seq, k) ==
    [i \in 1..(Len(seq) - 1) |-> IF i < k THEN seq[i] ELSE seq[i + 1]]

\* confirm_email up to its await: the token is validated, the update is sent
confirm_email_validate_OneTime(token) ==
    LET subject == get_subject_for_token_type(token, "confirmation", now)
    IN  IF subject.status # 200
        THEN /\ response' = Response("confirm_email", subject.status,
                                     subject.detail, "", token, "", 0)
             /\ UNCHANGED inflight
        ELSE IF fetch_one(subject.email).confirmed
        THEN /\ response' = Response("confirm_email", 401,
                                     "User already confirmed", "", token,
                                     "", 0)
             /\ UNCHANGED inflight
        ELSE /\ Len(inflight) < MaxInflight
             /\ inflight' = Append(inflight,
                    Pending("confirm_email", subject.email, token))
             /\ UNCHANGED response

confirm_email_validate(token) ==
    LET subject == get_subject_for_token_type(token, "confirmation", now)
    IN  IF subject.status # 200
        THEN /\ response' = Response("confirm_email", subject.status,
                                     subject.detail, "", token, "", 0)
             /\ UNCHANGED inflight
        ELSE /\ Len(inflight) < MaxInflight
             /\ inflight' = Append(inflight,
                    Pending("confirm_email", subject.email, token))
             /\ UNCHANGED response

\* confirm_email from its await on: the update is executed, the handler
\* returns
confirm_email_execute(k) ==
    /\ inflight[k].op = "confirm_email"
    /\ users' = mark_confirmed(inflight[k].email)
    /\ inflight' = Without(inflight, k)
    /\ response' = Response("confirm_email", 200, "User confirmed.",
                            inflight[k].email, inflight[k].token, "", 0)

ConfirmEmailValidate ==
    /\ \E token \in Offered(now) : confirm_email_validate(token)
    /\ UNCHANGED <<hashes, users, posts, comments, likes, now, ticks,
                   salts, issued>>

ConfirmEmailExecute ==
    /\ \E k \in 1..Len(inflight) : confirm_email_execute(k)
    /\ UNCHANGED <<hashes, posts, comments, likes, now, ticks, salts, issued>>

\* register suspended at `await database.execute(query)`: the insert it sent
PendingInsert(email, hashed) ==
    [op |-> "register", email |-> email, token |-> NoToken,
     hashed |-> hashed]

\* register up to that await: the checks, the lookup, the hash, the insert
\* is sent
register_check(email, password) ==
    IF email = ""
    THEN /\ response' = Response("register", 400, "Missing email value",
                                 email, NoToken, "", 0)
         /\ UNCHANGED <<inflight, salts>>
    ELSE IF password = ""
    THEN /\ response' = Response("register", 400, "Missing password value",
                                 email, NoToken, "", 0)
         /\ UNCHANGED <<inflight, salts>>
    ELSE IF get_user(email).user # NoUser
    THEN /\ response' = Queried(Response("register", 400,
               "The user with email " \o email \o " already exists",
               email, NoToken, "", 0), get_user_queries(email))
         /\ UNCHANGED <<inflight, salts>>
    ELSE /\ Len(inflight) < MaxInflight
         /\ salts' = salts + 1
         /\ inflight' = Append(inflight,
                PendingInsert(email, get_password(password)))
         /\ UNCHANGED response

\* the unique constraint of users_table.email: the insert of a second row
\* with the email is refused with an IntegrityError
unique_email_NoConstraint(email) == TRUE

unique_email(email) == \A i \in 1..Len(users) : users[i].email # email

\* register from that await on: the insert is executed, the confirmation
\* token is issued, the handler returns; an IntegrityError is handled nowhere
register_insert(k, minutes) ==
    LET email == inflight[k].email
        created == create_confirmation_token(email, now, minutes)
    IN  /\ inflight[k].op = "register"
        /\ inflight' = Without(inflight, k)
        /\ IF ~unique_email(email)
           THEN /\ response' = Response("register", 500,
                                        "Internal Server Error",
                                        email, NoToken, "", 0)
                /\ UNCHANGED <<users, issued>>
           ELSE /\ HasRoom(created.token)
                /\ users' = Append(users,
                       [id |-> Len(users) + 1, email |-> email,
                        password |-> inflight[k].hashed,
                        confirmed |-> ConfirmedDefault])
                /\ issued' = issued \cup {created.token}
                /\ response' = Response("register", 201,
                       "User created. Pleae confirm your email",
                       email, created.token, "", 0)

RegisterCheck ==
    /\ \E email \in EmailInputs, password \in PasswordInputs :
          register_check(email, password)
    /\ UNCHANGED <<hashes, users, posts, comments, likes, now, ticks,
                   issued>>

RegisterInsert ==
    /\ \E k \in 1..Len(inflight), minutes \in ConfirmExpire :
          register_insert(k, minutes)
    /\ UNCHANGED <<hashes, posts, comments, likes, now, ticks, salts>>

(* ------------------------------ environment ---------------------------- *)
\* the clock moves on to the last minute of an issued token, or past it
Advance ==
    /\ ticks < MaxTicks
    /\ \E tok \in issued, d \in {0, 1} :
          /\ tok.payload.exp + d > now
          /\ now' = tok.payload.exp + d
    /\ ticks' = ticks + 1
    /\ response' = Idle
    /\ UNCHANGED <<inflight, hashes, users, posts, comments, likes,
                   salts, issued>>

\* a client drops a token it holds
Discard ==
    /\ \E tok \in issued : issued' = issued \ {tok}
    /\ response' = Idle
    /\ UNCHANGED <<inflight, hashes, users, posts, comments, likes,
                   now, ticks, salts>>

(* ---------------------------- specifications --------------------------- *)
Init ==
    /\ users = <<>>
    /\ posts = <<>>
    /\ comments = <<>>
    /\ likes = <<>>
    /\ now = 0
    /\ ticks = 0
    /\ salts = 0
    /\ issued = {}
    /\ inflight = <<>>
    /\ hashes = {}
    /\ response = Idle

\* the application behind its HTTP interface
Next ==
    \/ Register
    \/ Login
    \/ ConfirmEmail
    \/ CreatePost
    \/ CreateComment
    \/ LikePost
    \/ AuthenticateUser
    \/ Discard

Spec == Init /\ [][Next]_vars

\* the token functions of security.py, called directly, and the clock
NextToken ==
    \/ CreateAccessToken
    \/ CreateConfirmationToken
    \/ GetSubjectForTokenType
    \/ Advance

SpecToken == Init /\ [][NextToken]_vars

\* the handlers of routers/user.py, several requests in progress at a time
NextAsync ==
    \/ Register
    \/ ConfirmEmailValidate
    \/ ConfirmEmailExecute
    \/ Advance

SpecAsync == Init /\ [][NextAsync]_vars

\* register, several requests in progress at a time
NextRegister ==
    \/ RegisterCheck
    \/ RegisterInsert
    \/ Discard

SpecRegister == Init /\ [][NextRegister]_vars

\* register beside the issuers and get_user_from_a_jwt, called directly: a
\* token can name an email that has no user record
NextIdentify ==
    \/ Register
    \/ CreateAccessToken
    \/ CreateConfirmationToken
    \/ GetUserFromAJwt
    \/ Discard

SpecIdentify == Init /\ [][NextIdentify]_vars

\* confirm_email beside register and the issuers called directly: a token
\* can name an email that has no user record, or lack a claim
NextConfirm ==
    \/ Register
    \/ CreateAccessToken
    \/ CreateConfirmationToken
    \/ ConfirmEmailPresented
    \/ Discard

SpecConfirm == Init /\ [][NextConfirm]_vars

\* the protected handlers of routers/post.py beside register and the issuer
\* of access tokens called directly: an access token can name an email that
\* has no user record
NextProtected ==
    \/ Register
    \/ CreateAccessToken
    \/ CreatePost
    \/ CreateComment
    \/ LikePost
    \/ Discard

SpecProtected == Init /\ [][NextProtected]_vars

\* the password hasher called directly, beside register that stores hashes
NextHasher ==
    \/ GetPassword
    \/ VerifyPassword
    \/ Register

SpecHasher == Init /\ [][NextHasher]_vars

(* ================================ claims =============================== *)
InvalidToken == HTTPException(401, "Could not validate credentials (JWT error)")
ExpiredToken == HTTPException(401, "Expired JWT token")
MissingSubject == HTTPException(401, "Token is missing 'sub' field")
WrongPurpose(token_type) ==
    HTTPException(401, "Invalid JWT type, expected: " \o token_type)

ValidlySigned(tok) ==
    tok.wellformed /\ tok.sig = Sign(SECRET_KEY, tok.payload)
Expired(tok) == "exp" \in DOMAIN tok.payload /\ tok.payload.exp < now
Validated(tok) ==
    response.op = "get_subject_for_token_type" /\ response.token = tok
UserOf(email) == fetch_one(email)
Registered(email) == UserOf(email) # NoUser

\* C1: purpose isolation.  An access token of the issuer, while unexpired,
\* is refused with the wrong-purpose error where a confirmation token is
\* expected, and a confirmation token where an access token is expected;
\* an issued token is accepted only under the purpose equal to its type, so
\* it is refused under any other expected value such as "WRONG TYPE".
C1_PurposeIsolation ==
    /\ \A s \in Emails :
          /\ get_subject_for_token_type(
                 create_access_token(s, now,
                     access_token_expire_minutes).token,
                 "confirmation", now) = WrongPurpose("confirmation")
          /\ get_subject_for_token_type(
                 create_confirmation_token(s, now,
                     confirm_token_expire_minutes).token,
                 "access", now) = WrongPurpose("access")
    /\ \A tok \in issued, expected \in ExpectedTypes :
          LET got == get_subject_for_token_type(tok, expected, now)
          IN  /\ got.status = 200 => expected = tok.payload.type
              /\ expected # tok.payload.type /\ ~Expired(tok)
                    => got = WrongPurpose(expected)

C1_Witness ==
    /\ response.op = "get_subject_for_token_type"
    /\ response.token \in issued
    /\ response.token.payload.type = "access"
    /\ response.expected = "confirmation"
    /\ response.status = 401
    /\ response.detail = "Invalid JWT type, expected: confirmation"

\* C2: round trip.  An unexpired token issued for subject s and purpose P,
\* validated with expected purpose P, yields exactly s.
C2_RoundTrip ==
    /\ \A s \in Emails :
          /\ get_subject_for_token_type(
                 create_access_token(s, now,
                     access_token_expire_minutes).token,
                 "access", now) = Subject(s)
          /\ get_subject_for_token_type(
                 create_confirmation_token(s, now,
                     confirm_token_expire_minutes).token,
                 "confirmation", now) = Subject(s)
    /\ \A tok \in issued :
          ~Expired(tok) =>
              get_subject_for_token_type(tok, tok.payload.type, now)
                  = Subject(tok.payload.sub)
    /\ response.op = "create_confirmation_token" /\ response.status = 200
       /\ ~Expired(response.token)
          => get_subject_for_token_type(response.token, "confirmation", now)
                = Subject(response.email)
    /\ response.op = "create_access_token" /\ response.status = 200
       /\ ~Expired(response.token)
          => get_subject_for_token_type(response.token, "access", now)
                = Subject(response.email)

C2_Witness ==
    /\ response.op = "get_subject_for_token_type"
    /\ response.token \in issued
    /\ response.expected = "confirmation"
    /\ response.status = 200
    /\ response.email = response.token.payload.sub
    /\ response.email \in Emails
    /\ now = response.token.payload.exp

\* C3: expiry.  A token issued with a lifetime of -1 minute is refused with
\* the expired-token error under every expected purpose, matching or not,
\* be it an access or a confirmation token; so is every issued token whose
\* exp lies before the current time, and get_user_from_a_jwt reports the
\* same error for it.
C3_Expiry ==
    /\ \A s \in Emails, expected \in ExpectedTypes :
          /\ get_subject_for_token_type(
                 create_access_token(s, now, MockedExpireMinutes).token,
                 expected, now) = ExpiredToken
          /\ get_subject_for_token_type(
                 create_confirmation_token(s, now, MockedExpireMinutes).token,
                 expected, now) = ExpiredToken
    /\ \A tok \in issued :
          Expired(tok) =>
              /\ \A expected \in ExpectedTypes :
                    get_subject_for_token_type(tok, expected, now)
                        = ExpiredToken
              /\ get_user_from_a_jwt(tok)
                    = UserResult(401, "Expired JWT token", NoUser)

C3_Witness ==
    /\ response.op = "get_subject_for_token_type"
    /\ response.token \in issued
    /\ ticks = 0
    /\ response.token.payload.exp = now + MockedExpireMinutes
    /\ response.token.payload.type = "confirmation"
    /\ response.expected = "access"
    /\ response.status = 401
    /\ response.detail = "Expired JWT token"

\* C4: tamper evidence.  A token that is an issued token with a claim or the
\* signature altered, a token signed with another key, or a string that is
\* no signed token at all is refused with the invalid-token error; whenever
\* validation succeeds, the token carries the signature of the configured
\* key over exactly the subject returned and the purpose expected.
C4_TamperEvidence ==
    /\ \A tok \in Forged(now), expected \in ExpectedTypes :
          get_subject_for_token_type(tok, expected, now) = InvalidToken
    /\ \A tok \in Presentable(now), expected \in ExpectedTypes :
          LET got == get_subject_for_token_type(tok, expected, now)
          IN  got.status = 200 =>
                  /\ ValidlySigned(tok)
                  /\ tok.payload.sub = got.email
                  /\ tok.payload.type = expected

C4_Witness ==
    /\ response.op = "get_subject_for_token_type"
    /\ \E tok \in issued :
          /\ ~Expired(tok)
          /\ response.token \in Tampered(tok, now)
          /\ response.token.payload.sub # tok.payload.sub
          /\ response.expected = tok.payload.type
    /\ response.status = 401
    /\ response.detail = "Could not validate credentials (JWT error)"

\* C5: order of the checks: signature, expiry, subject, purpose.  A forged
\* token that is also expired reports the invalid-token error; a validly
\* signed expired token reports the expired-token error even when its
\* subject is missing or its purpose is wrong; a validly signed unexpired
\* token without subject reports the missing-subject error even when its
\* purpose is wrong too.
C5_ValidationOrder ==
    \A tok \in Presentable(now), expected \in ExpectedTypes :
        LET got == get_subject_for_token_type(tok, expected, now)
        IN  /\ ~ValidlySigned(tok) => got = InvalidToken
            /\ ValidlySigned(tok) /\ Expired(tok) => got = ExpiredToken
            /\ ValidlySigned(tok) /\ ~Expired(tok)
               /\ "sub" \notin DOMAIN tok.payload => got = MissingSubject

C5_Witness ==
    /\ response.op = "get_subject_for_token_type"
    /\ ValidlySigned(response.token)
    /\ ~Expired(response.token)
    /\ "sub" \notin DOMAIN response.token.payload
    /\ response.token.payload.type # response.expected
    /\ response.status = 401
    /\ response.detail = "Token is missing 'sub' field"

InvalidCredentials == UserResult(401, "Invalid user or password", NoUser)
UnconfirmedAccount ==
    UserResult(401, "The user has not confirmed the email", NoUser)
Protected == {"create_post", "create_comment", "like_post"}

C9_ConfirmedIsMonotonic ==
    [][\A i \in 1..Len(users) :
          users[i].confirmed
          => /\ i <= Len(users')
             /\ users'[i].email = users[i].email
             /\ users'[i].confirmed]_vars

C9_Witness ==
    /\ response.op = "register"
    /\ response.status = 400
    /\ Registered(response.email)
    /\ UserOf(response.email).confirmed

\* C10: a confirmed flag goes from false to true only in a confirm_email
\* that succeeds on a token that is signed with the configured key, is not
\* expired, has purpose confirmation and has the user's email as subject.
C10_OnlyValidConfirmation ==
    [][\A i \in 1..Len(users) :
          ~users[i].confirmed /\ i <= Len(users') /\ users'[i].confirmed
          => /\ response'.op = "confirm_email"
             /\ response'.status = 200
             /\ ValidlySigned(response'.token)
             /\ "exp" \in DOMAIN response'.token.payload
             /\ response'.token.payload.exp >= now
             /\ response'.token.payload.type = "confirmation"
             /\ response'.token.payload.sub = users[i].email
             /\ response'.token \in issued]_vars

C10_Witness ==
    /\ response.op = "confirm_email"
    /\ response.status = 200
    /\ Len(users) = 2
    /\ \E i, j \in 1..Len(users) :
          /\ users[i].email = response.email
          /\ users[i].confirmed
          /\ ~users[j].confirmed

\* C11: confirming twice is not an error.  An issued confirmation token
\* that is not expired is accepted by confirm_email however often it is
\* presented, also when its user is confirmed already or another
\* confirmation with it is in progress; the update that follows succeeds and
\* leaves every user confirmed that was, and the token's user confirmed.
C11_ConfirmTwice ==
    /\ [](\A tok \in issued :
             tok.payload.type = "confirmation" /\ ~Expired(tok)
             => /\ get_subject_for_token_type(tok, "confirmation", now)
                      = Subject(tok.payload.sub)
                /\ ~(/\ response.op = "confirm_email"
                     /\ response.status # 200
                     /\ response.token = tok))
    /\ [][Len(inflight') < Len(inflight)
          => /\ response'.op = "confirm_email"
             /\ response'.status = 200
             /\ \A i \in 1..Len(users) :
                   users[i].confirmed \/ users[i].email = response'.email
                   => i <= Len(users') /\ users'[i].confirmed]_vars

C11_Witness ==
    /\ response.op = "confirm_email"
    /\ response.status = 200
    /\ response.token \in issued
    /\ now = response.token.payload.exp
    /\ Registered(response.email)
    /\ UserOf(response.email).confirmed
    /\ \E k \in 1..Len(inflight) : inflight[k].token = response.token

EmptyEmail == UserResult(401, "The email value can not be empty", NoUser)

\* C12: authenticate_user with an empty email fails with the empty-email
\* error of get_user, whatever the password and whatever users there are,
\* and looks nothing up; no call of the program queries the users table
\* with an empty key; the step of such a call changes no table.
C12_EmptyEmailGuard ==
    /\ [](/\ \A pw \in PasswordInputs :
                /\ authenticate_user("", pw) = EmptyEmail
                /\ authenticate_user_queries("", pw) = {}
          /\ "" \notin response.queried
          /\ response.op \in {"authenticate_user", "login"}
             /\ response.email = ""
                => /\ response.status = 401
                   /\ response.detail = "The email value can not be empty"
                   /\ response.queried = {})
    /\ [][response'.op \in {"authenticate_user", "login"}
          /\ response'.email = ""
          => UNCHANGED <<users, posts, comments, likes, issued>>]_vars

C12_Witness ==
    /\ response.op = "authenticate_user"
    /\ response.email = ""
    /\ response.status = 401
    /\ response.detail = "The email value can not be empty"
    /\ response.queried = {}
    /\ Len(users) > 0

EmptySubject == [status |-> 400, detail |-> "empty email", token |-> NoToken]

\* C13: both issuers reject the empty subject.  create_access_token and
\* create_confirmation_token called with the empty email fail with status
\* 400 and detail "empty email" and return no token, at every time and for
\* every lifetime; the call adds nothing to the tokens in circulation, and
\* every token an issuer has returned carries a subject that is not empty.
C13_IssuersRejectEmptySubject ==
    /\ [](/\ \A minutes \in AccessExpire \cup ConfirmExpire :
                /\ create_access_token("", now, minutes) = EmptySubject
                /\ create_confirmation_token("", now, minutes) = EmptySubject
          /\ \A tok \in issued :
                "sub" \in DOMAIN tok.payload /\ tok.payload.sub # ""
          /\ response.op \in {"create_access_token",
                              "create_confirmation_token"}
                => IF response.email = ""
                   THEN /\ response.status = 400
                        /\ response.detail = "empty email"
                        /\ response.token = NoToken
                   ELSE /\ response.status = 200
                        /\ response.token.payload.sub = response.email)
    /\ [][response'.op \in {"create_access_token",
                            "create_confirmation_token"}
          /\ response'.email = ""
          => issued' = issued]_vars

C13_Witness ==
    /\ response.op = "create_confirmation_token"
    /\ response.email = ""
    /\ response.status = 400
    /\ response.detail = "empty email"
    /\ response.token = NoToken
    /\ issued # {}

\* C14: the scenario register, confirm, authenticate, issue, validate.
\* The token a successful register returns has purpose confirmation and the
\* registered email as subject, and is accepted as such while unexpired;
\* an issued unexpired confirmation token passes the validation that
\* confirm_email starts with, and after a confirm_email that succeeded the
\* user the token names is confirmed; authenticate_user with the
\* email and the password a confirmed user registered with returns that
\* user's record; the token a successful login returns is an access token
\* that, validated with purpose access while unexpired, yields the email
\* logged in with, and identifies the user.
C14_Scenario ==
    /\ response.op = "register" /\ response.status = 201
          => /\ response.token.payload.type = "confirmation"
             /\ response.token.payload.sub = response.email
             /\ Registered(response.email)
             /\ ~Expired(response.token)
                   => get_subject_for_token_type(response.token,
                          "confirmation", now) = Subject(response.email)
    /\ \A tok \in issued :
          tok.payload.type = "confirmation" /\ ~Expired(tok)
          => get_subject_for_token_type(tok, "confirmation", now)
                 = Subject(tok.payload.sub)
    /\ response.op = "confirm_email" /\ response.status = 200
          => /\ response.email = response.token.payload.sub
             /\ response.token.payload.type = "confirmation"
             /\ Registered(response.email)
             /\ UserOf(response.email).confirmed
    /\ \A i \in 1..Len(users), pw \in Passwords :
          /\ users[i].confirmed
          /\ users[i].password = hashpw(pw, users[i].password.salt)
          => authenticate_user(users[i].email, pw)
                 = UserResult(200, "", users[i])
    /\ response.op = "login" /\ response.status = 200
          => /\ response.token.payload.type = "access"
             /\ response.token.payload.sub = response.email
             /\ response.user_id = UserOf(response.email).id
             /\ ~Expired(response.token)
                   => /\ get_subject_for_token_type(response.token,
                             "access", now) = Subject(response.email)
                      /\ get_user_from_a_jwt(response.token)
                             = UserResult(200, "", UserOf(response.email))

C14_Witness ==
    /\ response.op = "login"
    /\ response.status = 200
    /\ response.email = "a@x.com"
    /\ ~Expired(response.token)
    /\ get_subject_for_token_type(response.token, "access", now)
           = Subject("a@x.com")
    /\ UserOf("a@x.com").confirmed
    /\ UserOf("a@x.com").password
           = hashpw("pw1", UserOf("a@x.com").password.salt)
    /\ authenticate_user("a@x.com", "pw1").user = UserOf("a@x.com")

UserVanished == UserResult(401, "Could not find user for this user", NoUser)

\* C15: get_user_from_a_jwt.  For every token a client can present: one
\* that is not validly signed, or is expired, or is not an access token, is
\* refused with the validator's error for purpose access and nothing is
\* looked up, so an unexpired confirmation token gets the wrong-purpose
\* error; an unexpired access token yields the record whose email is the
\* token's subject, found by one lookup with that subject as key, or, when
\* there is no such record, the error "Could not find user for this user",
\* which is not the invalid-credentials error of login.
C15_GetUserFromAJwt ==
    /\ UserVanished # InvalidCredentials
    /\ \A tok \in Offered(now) :
          LET got == get_user_from_a_jwt(tok)
              keys == get_user_from_a_jwt_queries(tok)
          IN  /\ ~ValidlySigned(tok) => got.status = 401 /\ keys = {}
              /\ ValidlySigned(tok) /\ Expired(tok)
                    => /\ got = UserResult(401, "Expired JWT token", NoUser)
                       /\ keys = {}
              /\ (/\ ValidlySigned(tok) /\ ~Expired(tok)
                  /\ tok.payload.type = "confirmation")
                    => /\ got = UserResult(401,
                              "Invalid JWT type, expected: access", NoUser)
                       /\ keys = {}
              /\ (/\ ValidlySigned(tok) /\ ~Expired(tok)
                  /\ tok.payload.type = "access")
                    => /\ keys = {tok.payload.sub}
                       /\ IF \E i \in 1..Len(users) :
                                users[i].email = tok.payload.sub
                          THEN /\ got.status = 200
                               /\ got.user \in Rows(users)
                               /\ got.user.email = tok.payload.sub
                          ELSE got = UserVanished
    /\ response.op = "get_user_from_a_jwt"
          => /\ response.status = 200
                => /\ response.user_id \in 1..Len(users)
                   /\ users[response.user_id].email
                          = response.token.payload.sub
                   /\ response.token.payload.type = "access"
             /\ response.status # 200 => response.user_id = 0

C15_Witness ==
    /\ response.op = "get_user_from_a_jwt"
    /\ response.status = 401
    /\ response.detail = "Could not find user for this user"
    /\ response.token \in issued
    /\ response.queried = {response.token.payload.sub}
    /\ Len(users) > 0

\* C16: a validly signed, unexpired token whose subject claim is missing
\* or is the empty string is refused with the missing-subject error,
\* whatever purpose it carries and whatever purpose is expected; no
\* validation that succeeds returns the empty subject.
C16_MissingOrEmptySubject ==
    response.op = "get_subject_for_token_type"
    => /\ (/\ ValidlySigned(response.token)
           /\ ~Expired(response.token)
           /\ \/ "sub" \notin DOMAIN response.token.payload
              \/ response.token.payload.sub = "")
          => /\ response.status = 401
             /\ response.detail = "Token is missing 'sub' field"
       /\ response.status = 200 => response.email # ""

\* C17: default lifetimes, and the expiry is checked anew on every call.
\* An access token issued now with the default lifetime expires 30 minutes
\* from now, a confirmation token 1440 minutes from now; whatever the
\* current time has become, an issued token validated under its own purpose
\* is accepted while the time is not after its exp and is refused with the
\* expired-token error once it is, be it by a single minute.
C17_LifetimeAndRecheck ==
    /\ \A s \in Emails :
          /\ create_access_token(s, now, access_token_expire_minutes)
                 .token.payload.exp = now + 30
          /\ create_confirmation_token(s, now, confirm_token_expire_minutes)
                 .token.payload.exp = now + 1440
    /\ \A tok \in issued :
          LET got == get_subject_for_token_type(tok, tok.payload.type, now)
          IN  /\ now <= tok.payload.exp => got = Subject(tok.payload.sub)
              /\ now > tok.payload.exp => got = ExpiredToken
    /\ response.op = "create_access_token" /\ response.status = 200
          => response.token.payload.exp \in {now + 30, now - 1}
    /\ response.op = "create_confirmation_token" /\ response.status = 200
          => response.token.payload.exp \in {now + 1440, now - 1}
    /\ (/\ response.op = "get_subject_for_token_type"
        /\ response.token \in issued
        /\ response.expected = response.token.payload.type)
          => IF now <= response.token.payload.exp
             THEN response.status = 200
             ELSE response.status = 401
                  /\ response.detail = "Expired JWT token"

C17_Witness ==
    /\ response.op = "get_subject_for_token_type"
    /\ response.token \in issued
    /\ response.expected = "access"
    /\ response.token.payload.type = "access"
    /\ response.token.payload.exp = access_token_expire_minutes
    /\ ticks = 1
    /\ now = response.token.payload.exp + 1
    /\ response.status = 401
    /\ response.detail = "Expired JWT token"

Issuers == {"create_access_token", "create_confirmation_token"}

\* C18, as stated: every token create_access_token or create_confirmation_token
\* has just returned carries an exp strictly later than the time of the call.
C18_ExpStrictlyFuture ==
    response.op \in Issuers /\ response.status = 200
    => response.token.payload.exp > now

\* C18, amended: the exp of a token create_access_token or
\* create_confirmation_token returns is the time of the call plus the
\* lifetime in force; it is strictly later than the time of the call with
\* the default lifetimes of 30 and 1440 minutes, and earlier with the
\* lifetime of -1 minute the expiry tests put in force.
C18_ExpIsIssuancePlusLifetime ==
    /\ \A s \in Emails :
          /\ \A m \in AccessExpire :
                create_access_token(s, now, m).token.payload.exp = now + m
          /\ \A m \in ConfirmExpire :
                create_confirmation_token(s, now, m).token.payload.exp
                    = now + m
          /\ create_access_token(s, now, access_token_expire_minutes)
                 .token.payload.exp > now
          /\ create_confirmation_token(s, now, confirm_token_expire_minutes)
                 .token.payload.exp > now
    /\ response.op \in Issuers /\ response.status = 200
          => LET lifetime == response.token.payload.exp - now
             IN  /\ response.op = "create_access_token"
                       => lifetime \in AccessExpire
                 /\ response.op = "create_confirmation_token"
                       => lifetime \in ConfirmExpire
                 /\ lifetime # MockedExpireMinutes
                       => response.token.payload.exp > now
                 /\ lifetime = MockedExpireMinutes
                       => response.token.payload.exp < now

C18_Witness ==
    /\ response.op = "create_confirmation_token"
    /\ response.status = 200
    /\ response.token \in issued
    /\ response.token.payload.exp = now + confirm_token_expire_minutes
    /\ response.token.payload.exp > now

StoredHashes == {users[i].password : i \in 1..Len(users)}

C20_HasherRejectsEmpty ==
    response.op = "get_password" /\ response.password = ""
    => /\ response.status # 200
       /\ response.hashed = NoHash
       /\ response.hashed \notin hashes

\* C21: verify_password called with any password and a string that is not
\* a well-formed hash raises nothing and returns false.
C21_VerifyNeverRaises ==
    response.op = "verify_password" /\ response.hashed = MalformedHash
    => /\ response.status = 200
       /\ response.detail = "False"

AlreadyExists(email) == "The user with email " \o email \o " already exists"

C23_CheckOrder ==
    /\ \A email \in EmailInputs, password \in PasswordInputs :
          LET auth == authenticate_user(email, password)
              user == UserOf(email)
          IN  /\ (/\ email # ""
                  /\ Registered(email)
                  /\ ~user.confirmed
                  /\ ~verify_password(password, user.password))
                 => auth = InvalidCredentials
              /\ auth = UnconfirmedAccount
                 => /\ Registered(email)
                    /\ verify_password(password, user.password)
                    /\ ~user.confirmed
    /\ (/\ response.op \in {"login", "authenticate_user"}
        /\ response.detail = UnconfirmedAccount.detail)
       => /\ response.status = 401
          /\ Registered(response.email)
          /\ ~UserOf(response.email).confirmed
          /\ \E password \in Passwords :
                authenticate_user(response.email, password)
                    = UnconfirmedAccount

\* login of an unconfirmed user with a wrong password
C23_Witness ==
    /\ response.op = "login"
    /\ Registered(response.email)
    /\ ~UserOf(response.email).confirmed
    /\ response.status = InvalidCredentials.status
    /\ response.detail = InvalidCredentials.detail

Store == <<users, posts, comments, likes>>

ValidationErrors ==
    {InvalidToken, ExpiredToken, MissingSubject, WrongPurpose("confirmation")}

\* C24: validation has no side effect.  A token that is not validly signed,
\* or is expired, or lacks its subject, or is not a confirmation token is
\* refused by the validator under purpose confirmation, and a confirm_email
\* request that ends in one of the validator's errors leaves every stored
\* row, so every confirmed flag, and every issued token as it was.
C24_ValidationHasNoSideEffect ==
    /\ [](\A token \in Presentable(now) :
             LET subject ==
                     get_subject_for_token_type(token, "confirmation", now)
             IN  (\/ ~ValidlySigned(token)
                  \/ Expired(token)
                  \/ "sub" \notin DOMAIN token.payload
                  \/ "type" \notin DOMAIN token.payload
                  \/ token.payload.type # "confirmation")
                 => subject \in ValidationErrors)
    /\ [][response'.op = "confirm_email" /\ response'.status # 200
          => /\ UNCHANGED <<Store, issued>>
             /\ \E e \in ValidationErrors :
                   /\ response'.status = e.status
                   /\ response'.detail = e.detail]_vars

\* confirm_email refused with the expired-token error while a user is
\* registered and not confirmed
C24_Witness ==
    /\ response.op = "confirm_email"
    /\ response.status = ExpiredToken.status
    /\ response.detail = ExpiredToken.detail
    /\ \E tok \in issued :
          /\ tok.payload.type = "confirmation"
          /\ Expired(tok)
          /\ Registered(tok.payload.sub)
          /\ ~UserOf(tok.payload.sub).confirmed

\* the purpose a token declares, if any
ActualPurpose(tok) ==
    IF "type" \in DOMAIN tok.payload THEN tok.payload.type ELSE "None"

\* the tokens the validator refuses for their purpose where token_type is
\* expected
RefusedForPurpose(token_type) ==
    {tok \in Presentable(now) :
        /\ jwt_decode(tok, SECRET_KEY, now) = "payload"
        /\ ~sub_is_None(tok.payload)
        /\ type_is_wrong(tok.payload, token_type)}

\* C25 as stated: the wrong-purpose error carries the expected purpose and
\* the token's actual purpose, so a token that gets the error of the token
\* just refused, under the same expected purpose, declares the same purpose.
C25_CarriesExpectedAndActual ==
    (/\ response.op = "get_subject_for_token_type"
     /\ response.token \in RefusedForPurpose(response.expected))
    => \A tok \in RefusedForPurpose(response.expected) :
          LET subject ==
                  get_subject_for_token_type(tok, response.expected, now)
          IN  subject.status = response.status
                  /\ subject.detail = response.detail
              => ActualPurpose(tok) = ActualPurpose(response.token)

\* C25, amended: the wrong-purpose error carries the expected purpose and
\* nothing of the token.  Its detail is 'Invalid JWT type, expected: '
\* followed by the expected purpose, whatever purpose the token declares, so
\* the errors under two expected purposes differ and the errors of two
\* tokens under one expected purpose are the same.
C25_CarriesExpectedOnly ==
    /\ \A token_type \in ExpectedTypes :
          \A tok \in RefusedForPurpose(token_type) :
             get_subject_for_token_type(tok, token_type, now)
                 = WrongPurpose(token_type)
    /\ \A ty1, ty2 \in ExpectedTypes :
          WrongPurpose(ty1) = WrongPurpose(ty2) => ty1 = ty2
    /\ (/\ response.op = "get_subject_for_token_type"
        /\ response.token \in RefusedForPurpose(response.expected))
       => /\ response.status = 401
          /\ response.detail
                 = "Invalid JWT type, expected: " \o response.expected

\* an issued access token refused where "WRONG TYPE" is expected, beside a
\* token of the other purpose that gets the same error
C25_Witness ==
    /\ response.op = "get_subject_for_token_type"
    /\ response.token \in issued
    /\ response.token.payload.type = "access"
    /\ response.expected = "WRONG TYPE"
    /\ response.detail = WrongPurpose("WRONG TYPE").detail
    /\ \E tok \in RefusedForPurpose("WRONG TYPE") :
          ActualPurpose(tok) = "confirmation"

\* C26: a successful confirm_email for subject e changes only the confirmed
\* flag of the user record of e: it sets it, every other field of the record
\* and every other record stay as they were, no record is created or
\* deleted, and no post, comment, like or issued token changes.
C26_ConfirmChangesOnlyTheSubject ==
    [][response'.op = "confirm_email" /\ response'.status = 200
       => /\ Len(users') = Len(users)
          /\ \A i \in 1..Len(users) :
                IF users[i].email = response'.email
                THEN users'[i] = [users[i] EXCEPT !.confirmed = TRUE]
                ELSE users'[i] = users[i]
          /\ UNCHANGED <<posts, comments, likes, issued>>]_vars

\* two users, the confirmation of one of them just done, the other one not
\* confirmed
C26_Witness ==
    /\ response.op = "confirm_email"
    /\ response.status = 200
    /\ Len(users) = 2
    /\ \E i, j \in 1..Len(users) :
          /\ users[i].email = response.email
          /\ users[i].confirmed
          /\ users[j].email # response.email
          /\ ~users[j].confirmed

\* C27: confirm_email with a validly signed, unexpired confirmation token
\* whose subject has no user record reports success with 'User confirmed.'
\* and changes no stored row; a register that succeeds afterwards, as any
\* register that succeeds, creates the record of its email unconfirmed, and
\* no record exists for an email that no register created.
C27_ConfirmWithoutUser ==
    /\ [](\A tok \in issued :
             (/\ tok.payload.type = "confirmation"
              /\ ~Expired(tok)
              /\ ~Registered(tok.payload.sub))
             => /\ get_subject_for_token_type(tok, "confirmation", now)
                       = Subject(tok.payload.sub)
                /\ mark_confirmed(tok.payload.sub) = users)
    /\ [][/\ (/\ response'.op = "confirm_email"
              /\ response'.status = 200
              /\ ~Registered(response'.email))
             => /\ response'.detail = "User confirmed."
                /\ UNCHANGED Store
                /\ \A i \in 1..Len(users') :
                      users'[i].email # response'.email
          /\ response'.op = "register" /\ response'.status = 201
             => /\ Len(users') = Len(users) + 1
                /\ users'[Len(users')].email = response'.email
                /\ ~users'[Len(users')].confirmed
          /\ Len(users') > Len(users) => response'.op = "register"]_vars

\* confirm_email just succeeded with an issued token for an email that has
\* no user record, beside a registered user who stays unconfirmed
C27_Witness ==
    /\ response.op = "confirm_email"
    /\ response.status = 200
    /\ response.detail = "User confirmed."
    /\ response.token \in issued
    /\ ~Registered(response.email)
    /\ Len(users) = 1
    /\ ~users[1].confirmed

\* C28: for a user registered through register with email e and password p,
\* login with e and p succeeds with 200 and returns an access token for e.
\* A login for a registered email that is not refused for its credentials
\* was given the password of the record.
C28_RegisteredUserLogsIn ==
    (/\ response.op = "login"
     /\ Registered(response.email)
     /\ response.detail # InvalidCredentials.detail)
    => /\ response.status = 200
       /\ ValidlySigned(response.token)
       /\ response.token.payload.type = "access"
       /\ response.token.payload.sub = response.email

\* a token that does not identify a user: not validly signed, or expired, or
\* not an access token, or naming an email that has no user record
Unauthorised(tok) ==
    \/ ~ValidlySigned(tok)
    \/ Expired(tok)
    \/ tok.payload.type # "access"
    \/ ~Registered(tok.payload.sub)

Inserted(before, after) ==
    IF Len(after) = Len(before) + 1
           /\ \A i \in 1..Len(before) : after[i] = before[i]
    THEN {after[Len(after)]}
    ELSE {}

====
